---- MODULE Spec2Model ----
(***************************************************************************)
(* gtdtogether: per-user OmniFocus logs (src/main.py) and the per-user     *)
(* index (src/gtdt.py).                                                    *)
(*                                                                         *)
(* A log is a directory of record files "<timestamp>=<head>+<tail>.zip";   *)
(* the record named by <tail> follows the record named by <head>.  A       *)
(* directory listing is taken in name order, and a name starts with the    *)
(* timestamp, so a log is a sequence of records in writing order and the   *)
(* newest "*.client" file is the one tail_id reads.                        *)
(*                                                                         *)
(* An XML tree is the sequence of the children of its root.  lxml's        *)
(* append moves an element out of the tree it was in.                      *)
(*                                                                         *)
(* Every xpath of OmniDb names its steps in the OmniFocus namespace        *)
(* ("of:").  What objectify.parse reads from a record is in that           *)
(* namespace, because the record's root declares it.  What                 *)
(* objectify.Element makes is in no namespace: root.set('xmlns', ...) in   *)
(* create_root sets an attribute called xmlns, it does not move the        *)
(* element into the namespace.  Written to a record and read back, such an *)
(* element is in the namespace.  Each element and each root therefore      *)
(* carries ns, TRUE when an of: step selects it.                           *)
(***************************************************************************)
EXTENDS Integers, Sequences, FiniteSets, TLC

\* ------------------------------------------------------------------ bounds
\* records written to one log after its genesis record
MaxRecs == 3
\* operations staged in one store between two commits
MaxChanges == 2

\* the largest rowid a table of the index gives out
MaxRowid == 3

\* the frames Python lets a chain of calls open (sys.getrecursionlimit())
RecursionLimit == 4

\* ------------------------------------------------------------- vocabulary
Users == {"A", "B"}
\* the users whose store is driven through the OmniDb API in Spec
ApiUsers == {"A"}
\* no .client file: OmniClient.tail_id returns None
None == -1
\* the <head> of the genesis file name, and the <tail> it names
HeadId == 0
GenesisId == 1

\* a <context> and a <task> as objectify.parse reads them from a record
Ctx(id, op, name, ref) ==
  [kind |-> "context", id |-> id, op |-> op, name |-> name, ref |-> ref, ns |-> TRUE]
Task(id, op, name, ref) ==
  [kind |-> "task", id |-> id, op |-> op, name |-> name, ref |-> ref, ns |-> TRUE]

\* the op attribute dropped
NoOp(el) == [el EXCEPT !.op = "none"]

\* el as objectify.Element makes it, and el as it is read back from a record
Made(el) == [el EXCEPT !.ns = FALSE]
Parsed(el) == [el EXCEPT !.ns = TRUE]

\* a tree read from a record, and a tree under a root of create_root
InNs == TRUE
NoNs == FALSE

\* the records another OmniFocus client syncs into a log: one operation each
ExtEls ==
  { Ctx("a", "update", "y", "nil"), Ctx("a", "update", "x", "nil"),
    Ctx("a", "delete", "x", "nil"), Task("b", "none", "x", "a") }

\* the elements a caller hands to OmniDb.insert: the copy of an element
\* read from a record, and an element made with objectify.Element
InsertEls == { Ctx("a", "none", "x", "nil"), Made(Task("c", "update", "y", "a")) }

\* the contents of a genesis record: a plain snapshot
GenesisEls == { <<>>, << Ctx("a", "none", "x", "nil") >> }

\* the keys of OmniDelegateManager._contexts that parse reads, in the
\* order _load visits them (accepted, declined and completed go through
\* the same loop body and are read by _track_tasks alone, which is dead)
BucketKeys == << "incoming", "pending" >>
ContextKeys == {"root"} \cup { BucketKeys[i] : i \in 1..Len(BucketKeys) }

\* a delegate_contexts row as GTDTDbRow inserts it: every column NULL
NoRow == [k \in ContextKeys |-> "nil"]
\* a key OmniDelegateManager.contexts does not hold
NoContext == [id |-> "nil", user |-> "nil"]

\* the ids random.choice can give _generate_id for a new element
GenIds == {"p", "q", "r"}

VARIABLES
  disk,      \* disk[u]: the record files of u's log, in name order
  client,    \* client[u]: tailIdentifiers[0] of u's newest .client file, or None
  seq,       \* seq[u]: how many records were written to u's log after genesis
  db,        \* db[u]: the OmniDb object on u's log (OmniSharer.db)
  mdb,       \* mdb[u]: the OmniDb object of u's OmniDelegateManager (its .db)
  sql,       \* sql[u]: u's delegate_contexts row of the index (GTDTDb)
  contexts,  \* OmniDelegateManager.contexts, the dict of the class
  ret,       \* the last call: its name, its user and the exception it ended in
  rows,      \* rows[table]: the rows of that table of db.sqlite
  handle,    \* handle[u]: the GTDTDb(u) object a caller holds, by the rowid of its row
  out,       \* what the last call on the index was given or gave back
  peer       \* peer[u]: the OmniDb object a second process holds on u's log

\* the index (src/gtdt.py)
index == << rows, handle, out >>

vars == << disk, client, seq, db, mdb, sql, contexts, ret, rows, handle, out, peer >>

\* what the OmniDb API leaves alone
share == << mdb, sql, contexts, index, peer >>

\* ---------------------------------------------------------------- helpers
Range(s) == { s[i] : i \in 1..Len(s) }

Last(s) == s[Len(s)]

\* the positions from i on of the <kind> elements of s that an of: step
\* selects, ascending
RECURSIVE IdxOf(_, _, _)
IdxOf(s, kind, i) ==
  IF i > Len(s) THEN <<>>
  ELSE (IF s[i].kind = kind /\ s[i].ns THEN <<i>> ELSE <<>>) \o IdxOf(s, kind, i + 1)

\* s without the positions in drop
RECURSIVE Without(_, _, _)
Without(s, drop, i) ==
  IF i > Len(s) THEN <<>>
  ELSE (IF i \in drop THEN <<>> ELSE << s[i] >>) \o Without(s, drop, i + 1)

\* OmniDb._xpath("/of:omnifocus/of:<kind>[@id='<id>']", base): positions
\* in base, none when the root of base is in no namespace
xpath_id(base, rooted, kind, id) ==
  IF rooted THEN { i \in 1..Len(base) : base[i].kind = kind /\ base[i].id = id /\ base[i].ns }
  ELSE {}

\* base without its first element of that tag and id: base.remove(orig),
\* orig the [0] of the xpath; the IndexError of an empty result is passed
RemoveOrig(base, rooted, kind, id) ==
  LET hits == xpath_id(base, rooted, kind, id)
  IN IF hits = {} THEN base
     ELSE Without(base, { CHOOSE i \in hits : \A j \in hits : i <= j }, 1)

\* ------------------------------------------------------------------ OmniDb
\* OmniDb._merge_delta, one element: what base is after el was merged.
\* op=update replaces the first element of el's tag and id and drops the
\* op attribute; no op appends; op=delete calls base.remove(el) on an
\* element of the delta, which lxml refuses with ValueError.
merge_el(base, rooted, el) ==
  IF el.op = "update" THEN Append(RemoveOrig(base, rooted, el.kind, el.id), NoOp(el))
  ELSE IF el.op = "none" THEN Append(base, el)
  ELSE base

\* the elements of delta in the order _merge_delta visits them: the
\* contexts, then the tasks (as positions of delta); "/of:omnifocus/of:.."
\* selects nothing under a root that is in no namespace
merge_order(delta, rooted) ==
  IF rooted THEN IdxOf(delta, "context", 1) \o IdxOf(delta, "task", 1) ELSE <<>>

\* the for loops of _merge_delta from the k-th selected element on; rooted
\* tells whether the root of base is in the namespace
RECURSIVE merge_from(_, _, _, _, _)
merge_from(delta, base, rooted, order, k) ==
  IF k > Len(order)
  THEN [base |-> base, moved |-> Range(order), raised |-> "none"]
  ELSE
    LET el == delta[order[k]]
    IN IF el.op = "delete"
       THEN [base |-> base, moved |-> { order[j] : j \in 1..(k - 1) }, raised |-> "ValueError"]
       ELSE merge_from(delta, merge_el(base, rooted, el), rooted, order, k + 1)

\* OmniDb._merge_delta(delta, base): base after the merge, what is left in
\* delta (append moved the merged elements out of it), and the exception.
\* from and rooted tell whether the root of delta and the root of base are
\* in the namespace.
merge_delta(delta, from, base, rooted) ==
  LET r == merge_from(delta, base, rooted, merge_order(delta, from), 1)
  IN [base |-> r.base, delta |-> Without(delta, r.moved, 1), raised |-> r.raised]

\* _merge_delta over a list of trees read from records, stopping at the
\* first exception
RECURSIVE merge_all(_, _, _, _)
merge_all(trees, base, rooted, k) ==
  IF k > Len(trees) THEN [base |-> base, raised |-> "none"]
  ELSE
    LET r == merge_delta(trees[k].els, InNs, base, rooted)
    IN IF r.raised # "none" THEN [base |-> r.base, raised |-> r.raised]
       ELSE merge_all(trees, r.base, rooted, k + 1)

\* glob('<path>/*=<tail_id>+*.zip'): the files that follow tail_id
matches(files, tail_id) == SelectSeq(files, LAMBDA f : f.head = tail_id)

\* the while loop with the test of _tail_id against the client's tail_id
\* ahead of stack.append: the record the pointer names goes to deltas
RECURSIVE load_walk_early(_, _, _, _)
load_walk_early(files, tail_id, ctail, acc) ==
  LET m == matches(files, tail_id)
  IN IF m = <<>>
     THEN [main |-> acc.main, deltas |-> acc.deltas, tail_id |-> tail_id]
     ELSE
       LET fn == m[1]
           sw == IF fn.tail = ctail THEN [acc EXCEPT !.stack = "deltas"] ELSE acc
           nacc == IF sw.stack = "main"
                   THEN [sw EXCEPT !.main = Append(sw.main, fn)]
                   ELSE [sw EXCEPT !.deltas = Append(sw.deltas, fn)]
       IN load_walk_early(files, fn.tail, ctail, nacc)

\* the while loop of _load: the records appended to main and to deltas and
\* the final _tail_id.  stack is "main" until a record's tail is the
\* client's tail_id; that record itself is still appended to main.
RECURSIVE load_walk(_, _, _, _)
load_walk(files, tail_id, ctail, acc) ==
  LET m == matches(files, tail_id)
  IN IF m = <<>>
     THEN [main |-> acc.main, deltas |-> acc.deltas, tail_id |-> tail_id]
     ELSE
       LET fn == m[1]
           nacc == IF acc.stack = "main"
                   THEN [acc EXCEPT !.main = Append(acc.main, fn)]
                   ELSE [acc EXCEPT !.deltas = Append(acc.deltas, fn)]
           sw == IF fn.tail = ctail THEN [nacc EXCEPT !.stack = "deltas"] ELSE nacc
       IN load_walk(files, fn.tail, ctail, sw)

\* OmniClient.head_id: the <head> in the name of the genesis file
head_id(files) == (CHOOSE f \in Range(files) : f.genesis).head

\* _load, its last line self._merge_delta(self.delta): the overlay is
\* merged into the root.  _merge_delta would append each selected element
\* to the root and so move it out of the overlay; the overlay hangs under a
\* root of create_root, where "/of:omnifocus/of:.." selects nothing.
load_fold(s, f) ==
  [db |-> [s EXCEPT !.main = f.base, !.delta = f.delta], raised |-> f.raised]

\* the last line of _load with an overlay whose root is in the namespace:
\* the fold selects every element of the overlay and moves it to the root
load_folds_moved(s, d) ==
  IF d.raised # "none" THEN [db |-> [s EXCEPT !.delta = d.base], raised |-> d.raised]
  ELSE load_fold([s EXCEPT !.delta = d.base], merge_delta(d.base, InNs, s.main, InNs))

\* _load, the loop over deltas has given d
load_folds(s, d) ==
  IF d.raised # "none" THEN [db |-> [s EXCEPT !.delta = d.base], raised |-> d.raised]
  ELSE load_fold([s EXCEPT !.delta = d.base], merge_delta(d.base, NoNs, s.main, InNs))

\* _load, self._delta = self.create_root() and the loop over deltas: every
\* tree of deltas is merged into the new root, which is in no namespace
load_deltas(s, deltas) == load_folds(s, merge_all(deltas, <<>>, NoNs, 1))

\* _load, self._main = main.pop(0) and the loop over main
load_main(s, m, deltas) ==
  IF m.raised # "none" THEN [db |-> [s EXCEPT !.main = m.base, !.attached = 0], raised |-> m.raised]
  ELSE load_deltas([s EXCEPT !.main = m.base, !.attached = 0], deltas)

\* _load after its while loop; w is what the loop found
load_stacks(s, w) ==
  load_main([s EXCEPT !.tail_id = w.tail_id,
                      !.stack_main = [i \in 1..Len(w.main) |-> w.main[i].tail],
                      !.stack_deltas = [i \in 1..Len(w.deltas) |-> w.deltas[i].tail]],
            merge_all(Tail(w.main), Head(w.main).els, InNs, 1), w.deltas)

\* OmniDb._load on the object s: the object afterwards, and the exception.
\* _tail_id, _main and _delta are assigned as the code reaches them, so an
\* exception leaves the object half loaded.
load(s, files, ctail) ==
  load_stacks(s, load_walk(files, head_id(files), ctail, [main |-> <<>>, deltas |-> <<>>, stack |-> "main"]))

\* OmniDb.__init__ before its _load: no tail, no trees, no changes.
\* attached counts the staged elements that are children of the current
\* root (its last ones); stack_main and stack_deltas are the lists main and
\* deltas of the last _load, as record names.
NoDb ==
  [open |-> FALSE, tail_id |-> None, main |-> <<>>, delta |-> <<>>, changes |-> <<>>,
   attached |-> 0, stack_main |-> <<>>, stack_deltas |-> <<>>]

\* the name _generate_id draws for a new record: record names are drawn
\* fresh (11 random letters against a handful of records)
record_id(n) == n + GenesisId + 1

\* etree.tostring of a root of create_root with the elements els under
\* it, as objectify.parse reads it back: every element is in the namespace
written(els) == [i \in 1..Len(els) |-> Parsed(els[i])]

\* _generate_delta with a record that misses the first staged element
generate_delta_lost(s, files, id) ==
  [db |-> [s EXCEPT !.changes = <<>>,
                    !.main = SubSeq(s.main, 1, Len(s.main) - s.attached),
                    !.attached = 0,
                    !.tail_id = id],
   files |-> Append(files, [genesis |-> FALSE, head |-> s.tail_id, tail |-> id,
                            els |-> written(SubSeq(s.changes, 2, Len(s.changes)))]),
   client |-> id]

\* _generate_delta that names the record after the last record of the
\* directory as it is when the record is written, not after _tail_id
generate_delta_reread(s, files, id) ==
  [db |-> [s EXCEPT !.changes = <<>>,
                    !.main = SubSeq(s.main, 1, Len(s.main) - s.attached),
                    !.attached = 0,
                    !.tail_id = id],
   files |-> Append(files, [genesis |-> FALSE, head |-> Last(files).tail, tail |-> id,
                            els |-> written(s.changes)]),
   client |-> id]

\* OmniDb._generate_delta: the staged elements are appended to a new root
\* (which moves those still attached out of self.root), the record is
\* written after _tail_id, the .client file names it, _tail_id follows
generate_delta(s, files, id) ==
  [db |-> [s EXCEPT !.changes = <<>>,
                    !.main = SubSeq(s.main, 1, Len(s.main) - s.attached),
                    !.attached = 0,
                    !.tail_id = id],
   files |-> Append(files, [genesis |-> FALSE, head |-> s.tail_id, tail |-> id,
                            els |-> written(s.changes)]),
   client |-> id]

\* OmniDb.insert: _insert appends el to self.root, then el is staged
insert(s, el) ==
  [s EXCEPT !.main = Append(s.main, el),
            !.changes = Append(s.changes, el),
            !.attached = s.attached + 1]

\* OmniDb.filter: every <of:node id="id"> of the root
filter(s, node, id) == SelectSeq(s.main, LAMBDA el : el.kind = node /\ el.id = id /\ el.ns)

\* OmniDb.get: the unique <node id="id">, or the exception it raises
get(s, node, id) ==
  LET results == filter(s, node, id)
  IN IF results = <<>> THEN [raised |-> "ElementNotFound"]
     ELSE IF Len(results) > 1 THEN [raised |-> "MultipleElementsFound"]
     ELSE [raised |-> "none", el |-> results[1]]

\* OmniDb.commit, the reload after _generate_delta gave g
commit_reload(g, r) ==
  [db |-> r.db, files |-> g.files, client |-> g.client, raised |-> r.raised]

commit_load(g) == commit_reload(g, load(g.db, g.files, g.client))

\* OmniDb.commit on the object s, n records written so far: the object,
\* the directory and the pointer afterwards, and the exception of the reload
commit(s, files, n) == commit_load(generate_delta(s, files, record_id(n)))

\* OmniDb._generate_id for an element: a random id no element of the root has
generate_id(s) == { id \in GenIds : id \notin { el.id : el \in Range(s.main) } }

\* OmniDb.create_context: a new <context> with that id, parent and name
create_context(name, id, idref) == Made(Ctx(id, "none", name, idref))

\* ------------------------------------------------- OmniDelegateManager
\* OmniDelegateManager._contexts
Label(key) == IF key = "incoming" THEN "Incoming" ELSE "Delegate"

\* OmniDelegateContext(el, manager), as the id of el and the user of manager
DelegateContext(el, u) == [id |-> el.id, user |-> u]

\* The construction of OmniSharer(u) is threaded through a record w: the
\* two OmniDb objects, u's directory, pointer, record count and index row,
\* the class dict, lent (the contexts _create_context put under the root of
\* the sharer's db) and the exception that ended the construction.

\* w after a commit of the manager's db gave c
committed(w, c) ==
  [w EXCEPT !.mdb = c.db, !.files = c.files, !.client = c.client,
            !.seq = @ + 1, !.raised = c.raised]

\* OmniDelegateManager._init: the root context is drawn, named in the index,
\* inserted and committed
manager_init(w, id) ==
  committed([w EXCEPT !.sql = [@ EXCEPT !["root"] = id]],
            commit(insert(w.mdb, create_context("GTD Together", id, "nil")), w.files, w.seq))

\* contexts[key] = OmniDelegateContext(self.db.get('context', id), self)
manager_got(w, u, key, g) ==
  IF g.raised # "none" THEN [w EXCEPT !.raised = g.raised]
  ELSE [w EXCEPT !.contexts = [@ EXCEPT ![key] = DelegateContext(g.el, u)]]

manager_get(w, u, key) == manager_got(w, u, key, get(w.mdb, "context", w.sql[key]))

\* OmniDelegateManager._create_context(type, commit=False): the context is
\* drawn under contexts['root'], named in the index, inserted in the
\* manager's db and then appended to the root of the sharer's db, which
\* moves it there
created(w, u, key, ctx) ==
  [w EXCEPT !.sql = [@ EXCEPT ![key] = ctx.id],
            !.mdb = [@ EXCEPT !.changes = Append(@, ctx)],
            !.db = [@ EXCEPT !.main = Append(@, ctx)],
            !.lent = @ + 1,
            !.contexts = [@ EXCEPT ![key] = DelegateContext(ctx, u)]]

create_bucket(w, u, key, id) ==
  created(w, u, key, create_context(Label(key), id, w.contexts["root"].id))

\* one turn of the for loop of OmniDelegateManager._load
manager_key(w, u, key, id) ==
  IF w.sql[key] # "nil" THEN manager_get(w, u, key) ELSE create_bucket(w, u, key, id)

\* the for loop of OmniDelegateManager._load from its k-th key on
RECURSIVE manager_keys(_, _, _, _)
manager_keys(w, u, ids, k) ==
  IF k > Len(BucketKeys) \/ w.raised # "none" THEN w
  ELSE manager_keys(manager_key(w, u, BucketKeys[k], ids[BucketKeys[k]]), u, ids, k + 1)

\* OmniDelegateManager._load, its closing self.db.commit(): the staged
\* contexts are appended to the record, which moves them out of the root
\* of the sharer's db again
manager_commit(w) ==
  IF w.raised # "none" THEN w
  ELSE [committed(w, commit(w.mdb, w.files, w.seq))
          EXCEPT !.db = [@ EXCEPT !.main = SubSeq(@, 1, Len(@) - w.lent)], !.lent = 0]

\* OmniDelegateManager._load once the root context is in the index
manager_root(w, u, ids) ==
  IF w.raised # "none" THEN w
  ELSE manager_commit(manager_keys(manager_get(w, u, "root"), u, ids, 1))

\* OmniDelegateManager._load up to its for loop; rid is what _generate_id
\* draws for the root context
manager_rooted(w, rid) ==
  IF w.raised = "none" /\ w.sql["root"] = "nil" THEN manager_init(w, rid) ELSE w

\* the ids _generate_id can return: none that an element of the root of the
\* manager's db has when it is drawn (a draw that is not made is "nil")
drawn(need, s) == IF need THEN generate_id(s) ELSE {"nil"}

RootDraws(w) == drawn(w.raised = "none" /\ w.sql["root"] = "nil", w.mdb)

BucketDraws(w) ==
  { ids \in [{ BucketKeys[i] : i \in 1..Len(BucketKeys) } -> GenIds \cup {"nil"}] :
      \A key \in DOMAIN ids : ids[key] \in drawn(w.raised = "none" /\ w.sql[key] = "nil", w.mdb) }

\* OmniSharer.__init__ up to the manager's _load: the index row, the
\* sharer's OmniDb and the OmniDb of the manager
sharer_dbs(u, l1, l2) ==
  [db |-> l1.db, mdb |-> l2.db, files |-> disk[u], client |-> client[u],
   seq |-> seq[u], sql |-> sql[u], contexts |-> contexts, lent |-> 0,
   raised |-> IF l1.raised # "none" THEN l1.raised ELSE l2.raised]

sharer_open(u) ==
  sharer_dbs(u, load([NoDb EXCEPT !.open = TRUE], disk[u], client[u]),
                load([NoDb EXCEPT !.open = TRUE], disk[u], client[u]))

\* OmniSharer.__init__ up to the for loop of the manager's _load
sharer_rooted(u, rid) == manager_rooted(sharer_open(u), rid)

\* OmniSharer.__init__
sharer_init(u, rid, ids) == manager_root(sharer_rooted(u, rid), u, ids)

\* ----------------------------------------------------- OmniDelegateContext
\* An OmniDelegateContext object is its element's id and its manager's
\* user.  The properties type, root and parent call one another; what a
\* call gives is [raised, val, ctx]: the exception, the value of type (a
\* pair, NoType for None) and the object of root or parent (NoContext for
\* None).  depth counts the frames of the calls that are open; Python ends
\* the call that would pass its recursion limit in a RuntimeError.
NoType == << "nil", "nil" >>

Raise(e) == [raised |-> e, val |-> NoType, ctx |-> NoContext]

Return(val, ctx) == [raised |-> "none", val |-> val, ctx |-> ctx]

\* the keys of OmniDelegateManager.contexts in the order iteritems gives
\* them, those the dict holds
TypeKeys(reg) == SelectSeq(<< "root" >> \o BucketKeys, LAMBDA key : reg[key] # NoContext)

RECURSIVE ctx_type(_, _, _)
RECURSIVE ctx_root(_, _, _)
RECURSIVE ctx_parent(_, _, _)
RECURSIVE root_walk(_, _, _)
RECURSIVE type_loop(_, _, _, _, _)

\* OmniDelegateContext.parent: None for a context whose type is a root
\* type; for any other the line reads self.sharer, which the object does
\* not have
ctx_parent(reg, c, depth) ==
  IF depth >= RecursionLimit THEN Raise("RuntimeError")
  ELSE LET t == ctx_type(reg, c, depth + 1)
       IN IF t.raised # "none" THEN t
          ELSE IF t.val = NoType THEN Raise("TypeError")
          ELSE IF t.val[1] = "root" THEN Return(NoType, NoContext)
          ELSE Raise("AttributeError")

\* the while loop of OmniDelegateContext.root: parent.type is a pair or
\* None and never equal to 'root', so the loop goes on to parent.parent
\* until that is None, and None has no attribute type
root_walk(reg, parent, depth) ==
  LET t == ctx_type(reg, parent, depth + 1)
      p == ctx_parent(reg, parent, depth + 1)
  IN IF t.raised # "none" THEN t
     ELSE IF p.raised # "none" THEN p
     ELSE IF p.ctx = NoContext THEN Raise("AttributeError")
     ELSE root_walk(reg, p.ctx, depth)

\* OmniDelegateContext.root: parent = self.parent or self, then the loop
ctx_root(reg, c, depth) ==
  IF depth >= RecursionLimit THEN Raise("RuntimeError")
  ELSE LET p == ctx_parent(reg, c, depth + 1)
       IN IF p.raised # "none" THEN p
          ELSE root_walk(reg, IF p.ctx = NoContext THEN c ELSE p.ctx, depth)

\* the for loop of OmniDelegateContext.type from its k-th key on: _type is
\* set for every key whose context is self.root
type_loop(reg, c, depth, k, type) ==
  IF k > Len(TypeKeys(reg)) THEN Return(type, NoContext)
  ELSE LET r == ctx_root(reg, c, depth + 1)
       IN IF r.raised # "none" THEN r
          ELSE type_loop(reg, c, depth, k + 1,
                         IF r.ctx = reg[TypeKeys(reg)[k]]
                         THEN << IF c = r.ctx THEN "root" ELSE "user", TypeKeys(reg)[k] >>
                         ELSE type)

\* type with a loop that is never entered: None for every context
ctx_type_default(reg, c, depth) == Return(NoType, NoContext)

\* OmniDelegateContext.type of an object that was not asked before (_type
\* is None): the first turn of the loop asks self.root, which asks
\* self.parent, which asks self.type
ctx_type(reg, c, depth) ==
  IF depth >= RecursionLimit THEN Raise("RuntimeError")
  ELSE type_loop(reg, c, depth, 1, NoType)

\* ------------------------------------------------------------------ GTDTDb
\* The tables of db.sqlite are sets of rows [rowid, username, vals]; a
\* column that was given no value is NULL ("nil").  The file that creates
\* the tables is not part of the repository: a row's rowid is taken to be
\* the one sqlite gives a row inserted without one, the largest of the
\* table plus one.  Rowids are capped at MaxRowid: an insert that would
\* pass it is not made.
Tables == {"delegate_contexts", "tracked_tasks"}

\* the columns of the two tables besides username
Columns(table) == IF table = "delegate_contexts" THEN ContextKeys ELSE {"delegator", "task_id"}

\* no rowid: a GTDTDb object that was not constructed
NoRowid == 0

NoHandle == [open |-> FALSE, rowid |-> NoRowid]

\* nothing given or returned
NoOut == [col |-> "nil", val |-> "nil", n |-> 0]

\* an empty db.sqlite and no GTDTDb object
NoIndex ==
  /\ rows = [t \in Tables |-> {}]
  /\ handle = [u \in Users |-> NoHandle]
  /\ out = NoOut

\* the rows of a table WHERE username=?
OfUser(tb, table, u) == { r \in tb[table] : r.username = u }

\* cursor.lastrowid after an INSERT into the table
lastrowid(tb, table) ==
  IF tb[table] = {} THEN 1
  ELSE 1 + (CHOOSE n \in { r.rowid : r \in tb[table] } : \A r \in tb[table] : r.rowid <= n)

\* GTDTDb.insert(table, **kwargs): one row of the user with the columns
\* given, every other column NULL
GTDTDb_insert(tb, table, u, given) ==
  [tb EXCEPT ![table] = @ \cup
     { [rowid |-> lastrowid(tb, table), username |-> u,
        vals |-> [c \in Columns(table) |-> IF c \in DOMAIN given THEN given[c] ELSE "nil"]] }]

\* update with an UPDATE that has no WHERE: every row of the table is set
GTDTDb_update_all(tb, table, rowid, u, col, value) ==
  [tb EXCEPT ![table] = { [r EXCEPT !.vals[col] = value] : r \in @ }]

\* GTDTDb.update(table, rowid, col, value): UPDATE .. WHERE rowid=? AND username=?
GTDTDb_update(tb, table, rowid, u, col, value) ==
  [tb EXCEPT ![table] =
     { IF r.rowid = rowid /\ r.username = u THEN [r EXCEPT !.vals[col] = value] ELSE r : r \in @ }]

\* delete with a WHERE that lacks username=?: the rows of every user that
\* match the columns given are deleted
GTDTDb_delete_any(tb, table, u, given) ==
  [tb EXCEPT ![table] = { r \in @ : ~(\A c \in DOMAIN given : r.vals[c] = given[c]) }]

\* GTDTDb.delete(table, **kwargs): DELETE .. WHERE username=? AND col=? ..
GTDTDb_delete(tb, table, u, given) ==
  [tb EXCEPT ![table] =
     { r \in @ : ~(r.username = u /\ \A c \in DOMAIN given : r.vals[c] = given[c]) }]

\* GTDTDb.rowcount(table): SELECT COUNT(username) .. WHERE username=?
GTDTDb_rowcount(tb, table, u) == Cardinality(OfUser(tb, table, u))

\* GTDTDb.fetch(table, rowid, col): cursor.fetchone()[col]; fetchone() is
\* None when no row of the user has that rowid, and None[col] a TypeError
GTDTDb_fetch(tb, table, rowid, u, col) ==
  LET hit == { r \in OfUser(tb, table, u) : r.rowid = rowid }
  IN IF hit = {} THEN [raised |-> "TypeError", val |-> "nil"]
     ELSE [raised |-> "none", val |-> (CHOOSE r \in hit : TRUE).vals[col]]

\* GTDTDb.fetchall(table, 'rowid'), its first value: the rows come in
\* rowid order
first_rowid(tb, table, u) ==
  CHOOSE n \in { r.rowid : r \in OfUser(tb, table, u) } :
    \A r \in OfUser(tb, table, u) : n <= r.rowid

\* GTDTDb.purge(): DELETE FROM <table> WHERE username=?, for every table
GTDTDb_purge(tb, u) == [t \in Tables |-> { r \in tb[t] : r.username # u }]

\* GTDTDbRow.__init__ for delegate_contexts: the rowid of the user's first
\* row, or of the row it inserts when the user has none
row_init(tb, u) ==
  IF OfUser(tb, "delegate_contexts", u) # {}
  THEN [rows |-> tb, rowid |-> first_rowid(tb, "delegate_contexts", u)]
  ELSE [rows |-> GTDTDb_insert(tb, "delegate_contexts", u, << >>),
        rowid |-> lastrowid(tb, "delegate_contexts")]

\* ----------------------------------------------------------------- actions
Call(op, u, raised) == [op |-> op, user |-> u, raised |-> raised]

\* another OmniFocus client syncs one record into u's log, after the newest
\* record it wrote or saw (no store of this program is open on the log)
ExternalAppend(u, el) ==
  /\ ~db[u].open
  /\ seq[u] < MaxRecs
  /\ disk' = [disk EXCEPT ![u] = Append(@, [genesis |-> FALSE, head |-> seq[u] + GenesisId,
                                          tail |-> record_id(seq[u]), els |-> << el >>])]
  /\ seq' = [seq EXCEPT ![u] = @ + 1]
  /\ ret' = Call("external", u, "none")
  /\ UNCHANGED << client, db, share >>

\* one record file is missing from the directory (a sync that has not
\* brought every file): the chain has a missing link
ExternalDrop(u, i) ==
  /\ ~db[u].open
  /\ Len(disk[u]) = seq[u] + 1
  /\ i \in 2..Len(disk[u])
  /\ disk' = [disk EXCEPT ![u] = Without(@, {i}, 1)]
  /\ ret' = Call("drop", u, "none")
  /\ UNCHANGED << client, seq, db, share >>

\* OmniDb(username, client): __init__ runs _load; an exception leaves no object
Opens(u, r) ==
  /\ db' = [db EXCEPT ![u] = IF r.raised = "none" THEN r.db ELSE NoDb]
  /\ ret' = Call("open", u, r.raised)
  /\ UNCHANGED << disk, client, seq, share >>

Open(u) ==
  /\ ~db[u].open
  /\ Opens(u, load([NoDb EXCEPT !.open = TRUE], disk[u], client[u]))

\* the process ends: its objects on u's log and what they staged are gone
Close(u) ==
  /\ db[u].open
  /\ db' = [db EXCEPT ![u] = NoDb]
  /\ mdb' = [mdb EXCEPT ![u] = NoDb]
  /\ ret' = Call("close", u, "none")
  /\ UNCHANGED << disk, client, seq, sql, contexts, index, peer >>

\* OmniDb.insert(el)
Insert(u, el) ==
  /\ db[u].open
  /\ Len(db[u].changes) < MaxChanges
  /\ db' = [db EXCEPT ![u] = insert(@, el)]
  /\ ret' = Call("insert", u, "none")
  /\ UNCHANGED << disk, client, seq, share >>

\* OmniDb.remove(el), el an element of the root: _remove calls
\* self.root.rmeove, which is no method of the root and no child of it, so
\* the call ends in AttributeError before anything is removed or staged
Remove(u, i) ==
  /\ db[u].open
  /\ i \in 1..Len(db[u].main)
  /\ ret' = Call("remove", u, "AttributeError")
  /\ UNCHANGED << disk, client, seq, db, share >>

\* OmniDb.reload(): _load on the live object; _changes is not touched
Reloads(u, r) ==
  /\ db' = [db EXCEPT ![u] = r.db]
  /\ ret' = Call("reload", u, r.raised)
  /\ UNCHANGED << disk, client, seq, share >>

Reload(u) ==
  /\ db[u].open
  /\ Reloads(u, load(db[u], disk[u], client[u]))

\* OmniDb.commit(): _generate_delta, then reload
Commits(u, c) ==
  /\ disk' = [disk EXCEPT ![u] = c.files]
  /\ client' = [client EXCEPT ![u] = c.client]
  /\ db' = [db EXCEPT ![u] = c.db]
  /\ ret' = Call("commit", u, c.raised)
  /\ seq' = [seq EXCEPT ![u] = @ + 1]
  /\ UNCHANGED share

Commit(u) ==
  /\ db[u].open
  /\ seq[u] < MaxRecs
  /\ Commits(u, commit(db[u], disk[u], seq[u]))

Init ==
  /\ \E g \in GenesisEls :
       disk = [u \in Users |-> << [genesis |-> TRUE, head |-> HeadId, tail |-> GenesisId, els |-> g] >>]
  /\ client = [u \in Users |-> None]
  /\ seq = [u \in Users |-> 0]
  /\ db = [u \in Users |-> NoDb]
  /\ mdb = [u \in Users |-> NoDb]
  /\ sql = [u \in Users |-> NoRow]
  /\ contexts = [k \in ContextKeys |-> NoContext]
  /\ ret = Call("init", "A", "none")
  /\ NoIndex
  /\ peer = [u \in Users |-> NoDb]

Next ==
  \E u \in ApiUsers :
    \/ \E el \in ExtEls : ExternalAppend(u, el)
    \/ \E i \in 2..(MaxRecs + 1) : ExternalDrop(u, i)
    \/ Open(u)
    \/ Close(u)
    \/ \E el \in InsertEls : Insert(u, el)
    \/ \E i \in 1..(MaxRecs + MaxChanges + 1) : Remove(u, i)
    \/ Reload(u)
    \/ Commit(u)

Spec == Init /\ [][Next]_vars

\* ------------------------------------------------------------- OmniSharer
\* records written to one log after its genesis record, in SpecShare
MaxShareRecs == 6

\* what u enters in OmniFocus to hand a task to v: the mailbox "@v" under
\* u's Delegate context, and a task filed under that mailbox
Mailbox(u, v) == Ctx("m", "none", "@" \o v, sql[u]["pending"])
Handed == Task("t", "none", "note", "m")

\* a task u keeps under the pending bucket itself, handed to nobody
Kept(u) == Task("k", "none", "kept", sql[u]["pending"])

\* a context under the mailbox, and a context of u's own under no other
Under == Ctx("d", "none", "Urgent", "m")
Stray == Ctx("s", "none", "Home", "nil")

\* u's OmniFocus syncs one record into u's log: the mailbox once u's
\* Delegate context is known, the task once the mailbox is there
Delegate(u, v, el) ==
  /\ ~db[u].open
  /\ seq[u] < MaxShareRecs
  /\ sql[u]["pending"] # "nil"
  /\ el \in {Mailbox(u, v), Handed, Kept(u), Under, Stray}
  /\ \A f \in Range(disk[u]) : \A e \in Range(f.els) : e.id # el.id
  /\ el \in {Handed, Under} => \E f \in Range(disk[u]) : Mailbox(u, v) \in Range(f.els)
  /\ disk' = [disk EXCEPT ![u] = Append(@, [genesis |-> FALSE, head |-> seq[u] + GenesisId,
                                          tail |-> record_id(seq[u]), els |-> << el >>])]
  /\ seq' = [seq EXCEPT ![u] = @ + 1]
  /\ ret' = Call("delegate", u, "none")
  /\ UNCHANGED << client, db, share >>

\* OmniSharer(u), the one sharer a run of the program starts with.  An
\* exception leaves no sharer, but what __init__ wrote to the log, the
\* index and the class dict before it stays.
NewSharers(u, w) ==
  /\ disk' = [disk EXCEPT ![u] = w.files]
  /\ client' = [client EXCEPT ![u] = w.client]
  /\ seq' = [seq EXCEPT ![u] = w.seq]
  /\ sql' = [sql EXCEPT ![u] = w.sql]
  /\ contexts' = w.contexts
  /\ db' = [db EXCEPT ![u] = IF w.raised = "none" THEN w.db ELSE NoDb]
  /\ mdb' = [mdb EXCEPT ![u] = IF w.raised = "none" THEN w.mdb ELSE NoDb]
  /\ ret' = Call("sharer", u, w.raised)
  /\ UNCHANGED << index, peer >>

NewSharer(u) ==
  /\ \A v \in Users : ~db[v].open
  /\ seq[u] + (IF sql[u]["root"] = "nil" THEN 2 ELSE 1) <= MaxShareRecs
  /\ \E rid \in RootDraws(sharer_open(u)) :
       \E ids \in BucketDraws(sharer_rooted(u, rid)) :
         NewSharers(u, sharer_init(u, rid, ids))

\* parse with a loop that is entered and el = task in place of
\* el = copy(task): the task of the overlay is the one that is re-targeted
Parse_nocopy(u) ==
  /\ db[u].open /\ mdb[u].open
  /\ db' = [db EXCEPT ![u] = [@ EXCEPT !.delta =
              [i \in 1..Len(@) |-> IF @[i].kind = "task" THEN [@[i] EXCEPT !.ref = "nil"] ELSE @[i]]]]
  /\ ret' = Call("parse", u, "none")
  /\ UNCHANGED << disk, client, seq, share >>

\* parse with a loop that is entered and runs over self.db.root.task: a
\* task of the root under a pending mailbox is copied into the log of the
\* user the mailbox names
Parse_root(u) ==
  /\ db[u].open /\ mdb[u].open
  /\ disk' = [v \in Users |->
       IF v # u /\ seq[v] < MaxShareRecs
          /\ \E T \in Range(db[u].main) : T.kind = "task" /\ T.ref = "m"
       THEN Append(disk[v], [genesis |-> FALSE, head |-> Last(disk[v]).tail,
                             tail |-> record_id(seq[v]),
                             els |-> << Task("t", "none", "note", sql[v]["incoming"]) >>])
       ELSE disk[v]]
  /\ seq' = [v \in Users |-> IF disk'[v] # disk[v] THEN seq[v] + 1 ELSE seq[v]]
  /\ ret' = Call("parse", u, "none")
  /\ UNCHANGED << client, db, share >>

\* OmniSharer.parse().  self.db.delta.task looks for a <task> in the
\* namespace of the overlay's root, which has none, while the tasks of the
\* overlay were read from records and are in the OmniFocus namespace: it
\* is an AttributeError whatever the overlay holds.  (Were the loop
\* entered, its first turn calls context.isroot(), which
\* OmniDelegateContext does not define.)  The AttributeError is passed by
\* the except clause: parse returns and nothing was copied, re-targeted,
\* inserted or committed.
Parse(u) ==
  /\ db[u].open /\ mdb[u].open
  /\ ret' = Call("parse", u, "none")
  /\ UNCHANGED << disk, client, seq, db, share >>

\* the user who hands tasks over, and the user they go to
Delegator == "A"
Delegatee == "B"

InitShare ==
  /\ disk = [u \in Users |-> << [genesis |-> TRUE, head |-> HeadId, tail |-> GenesisId, els |-> <<>>] >>]
  /\ client = [u \in Users |-> None]
  /\ seq = [u \in Users |-> 0]
  /\ db = [u \in Users |-> NoDb]
  /\ mdb = [u \in Users |-> NoDb]
  /\ sql = [u \in Users |-> NoRow]
  /\ contexts = [k \in ContextKeys |-> NoContext]
  /\ ret = Call("init", "A", "none")
  /\ NoIndex
  /\ peer = [u \in Users |-> NoDb]

NextShare ==
  \/ \E el \in {Mailbox(Delegator, Delegatee), Handed, Kept(Delegator)} :
       Delegate(Delegator, Delegatee, el)
  \/ \E u \in Users :
       \/ NewSharer(u)
       \/ Parse(u)
       \/ Close(u)

SpecShare == InitShare /\ [][NextShare]_vars

TypeOK ==
  /\ \A u \in Users : seq[u] \in 0..MaxShareRecs /\ Len(disk[u]) <= seq[u] + 1
  /\ \A u \in Users : db[u].attached <= Len(db[u].changes)
  /\ \A t \in Tables : \A r \in rows[t] : r.rowid \in 1..MaxRowid
  /\ \A t \in Tables : \A r1 \in rows[t] : \A r2 \in rows[t] : r1.rowid = r2.rowid => r1 = r2

\* --------------------------------------------- two processes, one log
\* A second process with an OmniDb object of its own on u's log.  Its
\* calls are those of the first; the directory and the .client file are
\* what the two have in common.  A commit is one step: the record is
\* written after the _tail_id the object took at its last _load, so the
\* time another process has to write in between runs from that _load on.
PeerOpens(u, r) ==
  /\ peer' = [peer EXCEPT ![u] = IF r.raised = "none" THEN r.db ELSE NoDb]
  /\ ret' = Call("peer open", u, r.raised)
  /\ UNCHANGED << disk, client, seq, db, mdb, sql, contexts, index >>

PeerOpen(u) ==
  /\ ~peer[u].open
  /\ PeerOpens(u, load([NoDb EXCEPT !.open = TRUE], disk[u], client[u]))

PeerClose(u) ==
  /\ peer[u].open
  /\ peer' = [peer EXCEPT ![u] = NoDb]
  /\ ret' = Call("peer close", u, "none")
  /\ UNCHANGED << disk, client, seq, db, mdb, sql, contexts, index >>

PeerInsert(u, el) ==
  /\ peer[u].open
  /\ Len(peer[u].changes) < MaxChanges
  /\ peer' = [peer EXCEPT ![u] = insert(@, el)]
  /\ ret' = Call("peer insert", u, "none")
  /\ UNCHANGED << disk, client, seq, db, mdb, sql, contexts, index >>

PeerCommits(u, c) ==
  /\ disk' = [disk EXCEPT ![u] = c.files]
  /\ client' = [client EXCEPT ![u] = c.client]
  /\ peer' = [peer EXCEPT ![u] = c.db]
  /\ ret' = Call("peer commit", u, c.raised)
  /\ seq' = [seq EXCEPT ![u] = @ + 1]
  /\ UNCHANGED << db, mdb, sql, contexts, index >>

PeerCommit(u) ==
  /\ peer[u].open
  /\ seq[u] < MaxRecs
  /\ PeerCommits(u, commit(peer[u], disk[u], seq[u]))

\* what the second process inserts
PeerEls == { Made(Task("e", "update", "z", "nil")) }

NextRace ==
  \E u \in ApiUsers :
    \/ Open(u)
    \/ Close(u)
    \/ \E el \in InsertEls : Insert(u, el)
    \/ Commit(u)
    \/ PeerOpen(u)
    \/ PeerClose(u)
    \/ \E el \in PeerEls : PeerInsert(u, el)
    \/ PeerCommit(u)

SpecRace == Init /\ [][NextRace]_vars

\* ------------------------------------------- several sharers, one process
\* target = OmniSharer(v), the statement of parse, made in a process that
\* holds the sharer of another user: the manager of v fills the same class
\* dict
Target(v) ==
  /\ \E u \in Users \ {v} : db[u].open /\ mdb[u].open
  /\ ~db[v].open
  /\ seq[v] + (IF sql[v]["root"] = "nil" THEN 2 ELSE 1) <= MaxShareRecs
  /\ \E rid \in RootDraws(sharer_open(v)) :
       \E ids \in BucketDraws(sharer_rooted(v, rid)) :
         NewSharers(v, sharer_init(v, rid, ids))

NextProcess ==
  \E u \in Users :
    \/ NewSharer(u)
    \/ Target(u)
    \/ Close(u)

SpecProcess == InitShare /\ [][NextProcess]_vars

\* ----------------------------------------- the two stores of one sharer
\* OmniSharer(u), then calls on sharer.db, the store the sharer opened
\* before its manager opened and committed through its own
NextStores ==
  \E u \in ApiUsers :
    \/ NewSharer(u)
    \/ Close(u)
    \/ \E el \in InsertEls : Insert(u, el)
    \/ Reload(u)
    \/ Commit(u)

SpecStores == InitShare /\ [][NextStores]_vars

\* ------------------------------------------------- contexts classified
\* the <context> elements u's store holds, in its root and in its overlay
ContextEls(u) == { el \in Range(db[u].main) \cup Range(db[u].delta) : el.kind = "context" }

\* OmniDelegateContext(el, sharer.delegate).type for a context el of u's
\* store; out holds the pair as one string
Classify(u, el) ==
  /\ db[u].open /\ mdb[u].open
  /\ el \in ContextEls(u)
  /\ ret' = Call("type", u, ctx_type(contexts, DelegateContext(el, u), 0).raised)
  /\ out' = [col |-> el.id, n |-> 0,
              val |-> IF ctx_type(contexts, DelegateContext(el, u), 0).val = NoType THEN "nil"
                      ELSE ctx_type(contexts, DelegateContext(el, u), 0).val[1] \o "/"
                             \o ctx_type(contexts, DelegateContext(el, u), 0).val[2]]
  /\ UNCHANGED << peer, disk, client, seq, db, mdb, sql, contexts, rows, handle >>

NextType ==
  \/ \E el \in {Mailbox(Delegator, Delegatee), Under, Stray} : Delegate(Delegator, Delegatee, el)
  \/ NewSharer(Delegator)
  \/ Close(Delegator)
  \/ \E el \in ContextEls(Delegator) : Classify(Delegator, el)

SpecType == InitShare /\ [][NextType]_vars

\* ------------------------------------------------- commits that fail
\* OmniDb._generate_delta ending in the IOError of one of its writes.  The
\* while loop has run by then: the staged elements hang under the new
\* root, _changes is empty.  at = "archive": ZipFile(filename, 'w') raises,
\* no file is made.  at = "client": the record is written and closed, then
\* plistlib.writePlist raises in generate_file, so the .client file and
\* _tail_id (set on the line after) stay as they were.
generate_delta_fails(s, files, id, at) ==
  [db |-> [s EXCEPT !.changes = <<>>,
                    !.main = SubSeq(s.main, 1, Len(s.main) - s.attached),
                    !.attached = 0],
   files |-> IF at = "archive" THEN files
             ELSE Append(files, [genesis |-> FALSE, head |-> s.tail_id, tail |-> id,
                                 els |-> written(s.changes)])]

\* OmniDb.commit() when _generate_delta raises: the exception leaves commit
\* before its reload
CommitFailed(u, g, at) ==
  /\ disk' = [disk EXCEPT ![u] = g.files]
  /\ db' = [db EXCEPT ![u] = g.db]
  /\ seq' = [seq EXCEPT ![u] = IF at = "archive" THEN @ ELSE @ + 1]
  /\ ret' = Call("commit", u, "IOError")
  /\ UNCHANGED << client, share >>

CommitFails(u, at) ==
  /\ db[u].open
  /\ seq[u] < MaxRecs
  /\ CommitFailed(u, generate_delta_fails(db[u], disk[u], record_id(seq[u]), at), at)

NextFail ==
  \E u \in ApiUsers :
    \/ Open(u)
    \/ Close(u)
    \/ \E el \in InsertEls : Insert(u, el)
    \/ Reload(u)
    \/ Commit(u)
    \/ \E at \in {"archive", "client"} : CommitFails(u, at)

SpecFail == Init /\ [][NextFail]_vars

\* ------------------------------------------------------- the index in use
\* The calls a holder of a GTDTDb object makes on it, as the tests of
\* src/gtdt.py make them.
IndexUsers == {"A", "B"}

\* the columns and values that are set
IndexCols == {"root", "pending"}

IndexVals == {"p", "q"}

\* the rows that are appended
Appended == { [delegator |-> d, task_id |-> "t"] : d \in {"x", "y"} }

\* the filters delete() is called with: none, or one column
DeleteFilters == { << >> } \cup { [delegator |-> d] : d \in {"x"} }

\* sql = GTDTDb(u)
Connect(u) ==
  /\ row_init(rows, u).rowid <= MaxRowid
  /\ rows' = row_init(rows, u).rows
  /\ handle' = [handle EXCEPT ![u] = [open |-> TRUE, rowid |-> row_init(rows, u).rowid]]
  /\ out' = NoOut
  /\ ret' = Call("connect", u, "none")
  /\ UNCHANGED << peer, disk, client, seq, db, mdb, sql, contexts >>

\* sql.delegate_contexts.<col> = value
RowSet(u, col, value) ==
  /\ handle[u].open
  /\ rows' = GTDTDb_update(rows, "delegate_contexts", handle[u].rowid, u, col, value)
  /\ out' = [col |-> col, val |-> value, n |-> 0]
  /\ ret' = Call("set", u, "none")
  /\ UNCHANGED << peer, disk, client, seq, db, mdb, sql, contexts, handle >>

\* sql.delegate_contexts.<col>
RowGet(u, col) ==
  /\ handle[u].open
  /\ out' = [col |-> col, n |-> 0,
              val |-> GTDTDb_fetch(rows, "delegate_contexts", handle[u].rowid, u, col).val]
  /\ ret' = Call("get", u, GTDTDb_fetch(rows, "delegate_contexts", handle[u].rowid, u, col).raised)
  /\ UNCHANGED << peer, disk, client, seq, db, mdb, sql, contexts, rows, handle >>

\* sql.tracked_tasks.append(delegator=.., task_id=..)
SetAppend(u, given) ==
  /\ handle[u].open
  /\ lastrowid(rows, "tracked_tasks") <= MaxRowid
  /\ rows' = GTDTDb_insert(rows, "tracked_tasks", u, given)
  /\ out' = [col |-> "delegator", val |-> given.delegator, n |-> 0]
  /\ ret' = Call("append", u, "none")
  /\ UNCHANGED << peer, disk, client, seq, db, mdb, sql, contexts, handle >>

\* sql.tracked_tasks.delete(**given)
SetDelete(u, given) ==
  /\ handle[u].open
  /\ rows' = GTDTDb_delete(rows, "tracked_tasks", u, given)
  /\ out' = [col |-> "nil", val |-> "nil", n |-> Cardinality(DOMAIN given)]
  /\ ret' = Call("delete", u, "none")
  /\ UNCHANGED << peer, disk, client, seq, db, mdb, sql, contexts, handle >>

\* len(sql.tracked_tasks)
SetLen(u) ==
  /\ handle[u].open
  /\ out' = [col |-> "nil", val |-> "nil", n |-> GTDTDb_rowcount(rows, "tracked_tasks", u)]
  /\ ret' = Call("len", u, "none")
  /\ UNCHANGED << peer, disk, client, seq, db, mdb, sql, contexts, rows, handle >>

\* sql.purge()
Purge(u) ==
  /\ handle[u].open
  /\ rows' = GTDTDb_purge(rows, u)
  /\ out' = NoOut
  /\ ret' = Call("purge", u, "none")
  /\ UNCHANGED << peer, disk, client, seq, db, mdb, sql, contexts, handle >>

\* the row of a user: delegate_contexts
NextIndex ==
  \E u \in IndexUsers :
    \/ Connect(u)
    \/ \E col \in IndexCols : \E value \in IndexVals : RowSet(u, col, value)
    \/ \E col \in IndexCols : RowGet(u, col)
    \/ Purge(u)

SpecIndex == Init /\ [][NextIndex]_vars

\* the row set of a user: tracked_tasks
NextRowSet ==
  \E u \in IndexUsers :
    \/ Connect(u)
    \/ \E given \in Appended : SetAppend(u, given)
    \/ \E given \in DeleteFilters : SetDelete(u, given)
    \/ SetLen(u)
    \/ Purge(u)

SpecRowSet == Init /\ [][NextRowSet]_vars

\* ------------------------------------------- a sharer whose commit fails
\* w after a commit of the manager's db ended in the IOError of one of its
\* writes and gave g
failed(w, g, at) ==
  [w EXCEPT !.mdb = g.db, !.files = g.files,
            !.seq = IF at = "client" THEN @ + 1 ELSE @,
            !.raised = "IOError"]

\* OmniDelegateManager._init with a commit that fails: the root context is
\* drawn and named in the index, then inserted, then the commit raises
manager_init_fails(w, id, at) ==
  failed([w EXCEPT !.sql = [@ EXCEPT !["root"] = id]],
         generate_delta_fails(insert(w.mdb, create_context("GTD Together", id, "nil")),
                              w.files, record_id(w.seq), at),
         at)

\* OmniDelegateManager._load with a closing commit that fails: the bucket
\* contexts the loop created are named in the index by then
manager_commit_fails(w, at) ==
  IF w.raised # "none" THEN w
  ELSE failed(w, generate_delta_fails(w.mdb, w.files, record_id(w.seq), at), at)

\* OmniSharer.__init__ with the first commit of its manager failing: the
\* one of _init on a log whose index names no root, else the closing one
sharer_init_fails(u, rid, ids, at) ==
  IF sql[u]["root"] = "nil"
  THEN manager_init_fails(sharer_open(u), rid, at)
  ELSE manager_commit_fails(manager_keys(manager_get(sharer_open(u), u, "root"), u, ids, 1), at)

NewSharerFails(u, at) ==
  /\ \A v \in Users : ~db[v].open
  /\ seq[u] + 1 <= MaxShareRecs
  /\ \E rid \in RootDraws(sharer_open(u)) :
       \E ids \in BucketDraws(sharer_rooted(u, rid)) :
         NewSharers(u, sharer_init_fails(u, rid, ids, at))

NextSharerFail ==
  \E u \in ApiUsers :
    \/ NewSharer(u)
    \/ Close(u)
    \/ \E at \in {"archive", "client"} : NewSharerFails(u, at)

SpecSharerFail == InitShare /\ [][NextSharerFail]_vars

\* ------------------------------------------------------------------ claims
\* the ids of the elements of a tree
Ids(tree) == { el.id : el \in Range(tree) }

\* the tree a store was loaded with: its root without the staged elements
\* that insert appended to it
Loaded(s) == SubSeq(s.main, 1, Len(s.main) - s.attached)

\* every record of the directory follows the one written before it
Linked(files) ==
  /\ files[1].genesis
  /\ \A i \in 2..Len(files) : files[i].head = files[i - 1].tail

\* the record names a chain of links leads to from the genesis head
RECURSIVE ReachFrom(_, _)
ReachFrom(files, R) ==
  LET N == R \cup { f.tail : f \in { g \in Range(files) : g.head \in R } }
  IN IF N = R THEN R ELSE ReachFrom(files, N)

Reach(files) == ReachFrom(files, {HeadId})

\* the step is a commit() of u that returned
Committed(u) == ret'.op = "commit" /\ ret'.user = u /\ ret'.raised = "none"

\* C1: insert(e); commit(); reload(); get(e.id): for a staged element e
\* whose id no other element of the store (loaded tree, overlay, staged)
\* has, get after the commit and its reload, and after one more reload,
\* returns exactly one element, e without its op marker.
C1_InsertCommitGet ==
  [][\A u \in Users : Committed(u) =>
       \A k \in 1..Len(db[u].changes) :
         LET e == db[u].changes[k]
             again == load(db'[u], disk'[u], client'[u])
         IN (/\ e.id \notin Ids(Loaded(db[u])) \cup Ids(db[u].delta)
             /\ \A j \in 1..Len(db[u].changes) : j # k => db[u].changes[j].id # e.id)
            => /\ get(db'[u], e.kind, e.id) = [raised |-> "none", el |-> Parsed(NoOp(e))]
               /\ again.raised = "none"
               /\ get(again.db, e.kind, e.id) = [raised |-> "none", el |-> Parsed(NoOp(e))]]_vars

\* a commit of a record holding an update-marked element returned and get
\* finds that element, unmarked
C1_Witness ==
  \E u \in Users :
    /\ ret = Call("commit", u, "none")
    /\ \E e \in Range(Last(disk[u]).els) :
         /\ e.op = "update"
         /\ Len(filter(db[u], e.kind, e.id)) = 1
         /\ get(db[u], e.kind, e.id) = [raised |-> "none", el |-> NoOp(e)]

\* C2: remove(e) of an element of the store returns and stages a Delete
\* tombstone for e.id (so that commit and reload leave no element e.id).
C2_RemoveStagesTombstone ==
  [][\A u \in Users : (ret'.op = "remove" /\ ret'.user = u) =>
       /\ ret'.raised = "none"
       /\ Len(db'[u].changes) = Len(db[u].changes) + 1
       /\ Last(db'[u].changes).op = "delete"]_vars

\* C6: for a connected chain with the pointer at its k-th record, _load
\* puts exactly the records 1..k on main and exactly the records after k
\* on deltas, both in chain order; with the pointer at the last record
\* nothing is on deltas and the overlay is empty.
C6_SplitAtPointer ==
  \A u \in Users :
    (db[u].open /\ Linked(disk[u])) =>
      \A k \in 1..Len(disk[u]) :
        client[u] = disk[u][k].tail =>
          /\ db[u].stack_main = [i \in 1..k |-> disk[u][i].tail]
          /\ db[u].stack_deltas = [i \in 1..(Len(disk[u]) - k) |-> disk[u][k + i].tail]
          /\ (k = Len(disk[u]) => db[u].delta = <<>>)

\* genesis -> r2 -> r3 with the pointer at r2: r3 alone is on deltas
C6_Witness ==
  \E u \in Users :
    /\ db[u].open /\ Linked(disk[u]) /\ Len(disk[u]) = 3
    /\ client[u] = disk[u][2].tail
    /\ db[u].stack_main = << disk[u][1].tail, disk[u][2].tail >>
    /\ db[u].stack_deltas = << disk[u][3].tail >>

\* the step before was a _load of u's store that completed
Loads(u) == ret.user = u /\ ret.op \in {"open", "reload", "commit"} /\ ret.raised = "none"

\* the elements of the records _load put on deltas
Unseen(u) ==
  UNION { Range(f.els) : f \in { g \in Range(disk[u]) : g.tail \in Range(db[u].stack_deltas) } }

\* C7: after a _load that completed the overlay holds exactly the elements
\* of the records beyond the pointer (their op marker dropped): the fold of
\* the overlay into the root has not emptied or shrunk it.
C7_OverlayKept ==
  \A u \in Users :
    (db[u].open /\ Loads(u)) => Range(db[u].delta) = { NoOp(el) : el \in Unseen(u) }

\* a store was opened on a log with an update-marked record beyond the
\* pointer, and the overlay holds that record's element
C7_Witness ==
  \E u \in Users :
    /\ db[u].open /\ ret = Call("open", u, "none")
    /\ \E el \in Unseen(u) : el.op = "update" /\ NoOp(el) \in Range(db[u].delta)

\* the update-marked elements of (kind, id) in the records of the loaded
\* chain, in chain order
Updates(u, kind, id) ==
  SelectSeq(disk[u], LAMBDA f :
    /\ f.tail \in Range(db[u].stack_main) \cup Range(db[u].stack_deltas)
    /\ \E el \in Range(f.els) : el.kind = kind /\ el.id = id /\ el.op = "update")

\* C8: when two records of the chain update the same id, the loaded
\* document has exactly one element of that id and it is the later
\* record's, wherever the pointer is.
C8_LastWriterWins ==
  \A u \in Users : \A kind \in {"context", "task"} : \A id \in Ids(db[u].main) \cup {"a"} :
    (/\ db[u].open /\ db[u].changes = <<>> /\ Len(Updates(u, kind, id)) >= 2
     /\ \A i \in 2..Len(disk[u]) : \A el \in Range(disk[u][i].els) :
          (el.kind = kind /\ el.id = id) => el.op = "update") =>
      \E el \in Range(Last(Updates(u, kind, id)).els) :
        /\ el.kind = kind /\ el.id = id
        /\ get(db[u], kind, id) = [raised |-> "none", el |-> NoOp(el)]

\* C9: no two elements of a store share an id: get never raises
\* MultipleElementsFound.
C9_IdsUnique ==
  \A u \in Users : \A kind \in {"context", "task"} : \A id \in Ids(db[u].main) :
    db[u].open => get(db[u], kind, id).raised # "MultipleElementsFound"

\* the chain does not lead from genesis to the record the pointer names
Broken(u) == client[u] # None /\ client[u] \notin Reach(disk[u])

\* C10: on a chain with a missing link before the pointer's record, load,
\* reload and commit end in an error; no store is built from the part of
\* the chain that was found.
C10_BrokenChainFatal ==
  \A u \in Users :
    Broken(u) =>
      /\ (ret.user = u /\ ret.op \in {"open", "reload", "commit"}) => ret.raised # "none"
      /\ ~db[u].open

\* every element written to u's log
Els(u) == UNION { Range(f.els) : f \in Range(disk[u]) }

\* the tail of a record of u's log that holds el
RecordsOf(u, el) == { f.tail : f \in { g \in Range(disk[u]) : el \in Range(g.els) } }

\* M is u's mailbox for v in that bucket: a context "@v" under the bucket
\* context u's index names
IsMailbox(u, M, bucket, v) ==
  /\ M.kind = "context" /\ M.name = "@" \o v
  /\ sql[u][bucket] # "nil" /\ M.ref = sql[u][bucket]

\* T is a task u filed under u's pending/@v mailbox
IsHanded(u, T, v) ==
  /\ T.kind = "task"
  /\ \E M \in Els(u) : M.id = T.ref /\ IsMailbox(u, M, "pending", v)

\* the tasks of v's log that carry T's note under v's incoming/@u mailbox
Copies(u, T, v) ==
  { C \in Els(v) :
      /\ C.kind = "task" /\ C.name = T.name
      /\ \E N \in Els(v) : N.id = C.ref /\ IsMailbox(v, N, "incoming", u) }

\* C3: u hands T to v (T under u's pending/@v mailbox, in a record beyond
\* the pointer); when route(u) has returned, v's log holds a task with
\* T's note under v's incoming/@u mailbox.
C3_RouteDelivers ==
  \A u \in Users : \A v \in Users \ {u} : \A T \in Els(u) :
    (/\ ret = Call("parse", u, "none")
     /\ IsHanded(u, T, v)
     /\ RecordsOf(u, T) \subseteq Range(db[u].stack_deltas))
    => Copies(u, T, v) # {}

\* C4: once T is in u's base and no longer in u's overlay, a route(u)
\* that returns leaves v's log with the one copy of T the first run made.
C4_DeliveredOnce ==
  \A u \in Users : \A v \in Users \ {u} : \A T \in Els(u) :
    (/\ ret = Call("parse", u, "none")
     /\ IsHanded(u, T, v)
     /\ RecordsOf(u, T) \subseteq Range(db[u].stack_main))
    => Cardinality(Copies(u, T, v)) = 1

\* the tasks of that id a store holds, in its root and in its overlay
Held(s, id) == SelectSeq(s.main \o s.delta, LAMBDA el : el.kind = "task" /\ el.id = id)

\* C5: when route(u) has returned, every task u handed over is still in
\* u's log and in u's store (root or overlay), once, with the note and the
\* context reference it was written with.
C5_SourceUnchanged ==
  \A u \in Users : \A v \in Users \ {u} : \A T \in Els(u) :
    (ret = Call("parse", u, "none") /\ IsHanded(u, T, v))
    => Held(db[u], T.id) = << T >>

\* route(A) returned with the task A handed to B in a record beyond the
\* pointer, and the task is in A's overlay as written
C5_Witness ==
  /\ ret = Call("parse", "A", "none")
  /\ IsHanded("A", Handed, "B")
  /\ RecordsOf("A", Handed) \subseteq Range(db["A"].stack_deltas)
  /\ RecordsOf("A", Handed) # {}
  /\ Handed \in Range(db["A"].delta)

\* C11: a commit() that ends in the failure of one of its writes leaves
\* the directory without a new record and the pointer on the record it
\* named before.
C11_CommitAllOrNothing ==
  [][\A u \in Users : (ret'.op = "commit" /\ ret'.user = u /\ ret'.raised = "IOError") =>
       /\ disk'[u] = disk[u]
       /\ client'[u] = client[u]]_vars

\* the operations u's store staged since its last commit or reload: the
\* staged elements that still hang under the root the last _load built
StagedSince(u) ==
  SubSeq(db[u].changes, Len(db[u].changes) - db[u].attached + 1, Len(db[u].changes))

\* C12: a commit() that returns appends exactly one record, after the
\* current tail and under a fresh id, whose operations are the operations
\* staged since the last commit or reload, in staging order; the pointer
\* names that record, and after the closing reload nothing is staged and
\* the record is on main, not on deltas.
C12_CommitOneRecord ==
  [][\A u \in Users : Committed(u) =>
       /\ disk'[u] = Append(disk[u], [genesis |-> FALSE, head |-> db[u].tail_id,
                                      tail |-> client'[u], els |-> written(StagedSince(u))])
       /\ client'[u] \notin { f.tail : f \in Range(disk[u]) }
       /\ db'[u].changes = <<>>
       /\ client'[u] \in Range(db'[u].stack_main)
       /\ client'[u] \notin Range(db'[u].stack_deltas)]_vars

\* C13: a reload() that returns leaves nothing staged (so the next commit
\* writes none of the operations staged before it), and the root it leaves
\* is the one a new store on the same log is built with.
C13_ReloadDiscards ==
  [][\A u \in Users : (ret'.op = "reload" /\ ret'.user = u /\ ret'.raised = "none") =>
       /\ db'[u].changes = <<>>
       /\ db'[u].main = load([NoDb EXCEPT !.open = TRUE], disk[u], client[u]).db.main]_vars

\* how many <context> elements of that id the records of a log hold
ContextsOf(files, id) ==
  Cardinality({ << i, j >> \in (1..Len(files)) \X (1..(MaxShareRecs + 1)) :
                  /\ j <= Len(files[i].els)
                  /\ files[i].els[j].kind = "context"
                  /\ files[i].els[j].id = id })

\* C14: every construction of u's context tree returns, with the id the
\* index already names for a bucket (and for the root) kept, and with
\* exactly one context element of that id in u's store.
C14_BucketIdempotent ==
  [][\A u \in Users : (ret'.op = "sharer" /\ ret'.user = u) =>
       /\ ret'.raised = "none"
       /\ \A key \in ContextKeys :
            /\ sql[u][key] # "nil" => sql'[u][key] = sql[u][key]
            /\ sql'[u][key] # "nil"
            /\ ContextsOf(disk'[u], sql'[u][key]) = 1]_vars

\* C15: the ids successive _generate_id calls hand out for the contexts of
\* one user are pairwise distinct.
C15_GeneratedDistinct ==
  \A u \in Users : \A k1 \in ContextKeys : \A k2 \in ContextKeys \ {k1} :
    sql[u][k1] # "nil" => sql[u][k1] # sql[u][k2]

\* the records of u's log that _load reads and that hold a delete-marked
\* element
Deletes(u) ==
  { f \in Range(disk[u]) :
      /\ f.tail \in Reach(disk[u])
      /\ \E el \in Range(f.els) : el.op = "delete" }

\* C16: a _load that reads a record with a Delete for id x raises nothing,
\* whether or not an element x is there; when that record is the last of
\* the chain and is on main, no element x is left in the root.
C16_DeleteMerges ==
  \A u \in Users :
    (ret.user = u /\ ret.op \in {"open", "reload", "commit"} /\ Deletes(u) # {}) =>
      /\ ret.raised = "none"
      /\ \A el \in Range(Last(disk[u]).els) :
           (el.op = "delete" /\ Last(disk[u]).tail \in Range(db[u].stack_main))
           => filter(db[u], el.kind, el.id) = <<>>

\* what a GTDTDb(u) constructed now reads as sql.delegate_contexts.<col>
Field(tb, u, col) ==
  GTDTDb_fetch(row_init(tb, u).rows, "delegate_contexts", row_init(tb, u).rowid, u, col).val

\* the row the GTDTDb object of u was constructed on is in the table: u was
\* not purged since
Live(u) ==
  /\ handle[u].open
  /\ \E r \in OfUser(rows, "delegate_contexts", u) : r.rowid = handle[u].rowid

Tracked(tb, u) == OfUser(tb, "tracked_tasks", u)

\* C18: an append by u adds exactly one row of u holding the values given,
\* a delete() with no filter and a purge() leave u no row, len() is the
\* number of u's rows, and the rows of a user change only by an append, a
\* delete or a purge of that user.
C18_RowCount ==
  [][\A u \in IndexUsers :
       /\ (ret'.op = "append" /\ ret'.user = u) =>
            /\ \E r \in rows'["tracked_tasks"] \ rows["tracked_tasks"] :
                 /\ rows'["tracked_tasks"] = rows["tracked_tasks"] \cup {r}
                 /\ r.username = u
                 /\ r.vals = [delegator |-> out'.val, task_id |-> "t"]
            /\ GTDTDb_rowcount(rows', "tracked_tasks", u)
                 = GTDTDb_rowcount(rows, "tracked_tasks", u) + 1
       /\ (ret'.op = "delete" /\ ret'.user = u /\ out'.n = 0) =>
            GTDTDb_rowcount(rows', "tracked_tasks", u) = 0
       /\ (ret'.op = "purge" /\ ret'.user = u) =>
            \A t \in Tables : GTDTDb_rowcount(rows', t, u) = 0
       /\ (ret'.op = "len" /\ ret'.user = u) =>
            /\ out'.n = Cardinality(Tracked(rows, u))
            /\ rows' = rows
       /\ Tracked(rows', u) # Tracked(rows, u) =>
            /\ ret'.user = u
            /\ ret'.op \in {"append", "delete", "purge"}
       /\ OfUser(rows', "delegate_contexts", u) # OfUser(rows, "delegate_contexts", u) =>
            /\ ret'.user = u
            /\ ret'.op \in {"connect", "purge"}
     ]_vars

\* A counts its two rows while B has one.
C18_Witness ==
  /\ ret = Call("len", "A", "none")
  /\ out.n = 2
  /\ Cardinality(Tracked(rows, "B")) = 1

\* C19: a route(u) changes the log, the pointer or the store of another
\* user v only if u's overlay holds a task under u's pending/@v mailbox: a
\* task that is only in u's root, or under the pending bucket itself,
\* causes no insert and no commit for v.
C19_ForwardsOnlyPending ==
  [][\A u \in Users : (ret'.op = "parse" /\ ret'.user = u) =>
       \A v \in Users \ {u} :
         (disk'[v] # disk[v] \/ client'[v] # client[v] \/ db'[v] # db[v] \/ seq'[v] # seq[v]) =>
           \E T \in Range(db[u].delta) : IsHanded(u, T, v)]_vars

\* route(A) returned with the task A handed to B only in A's root: its
\* record is not beyond the pointer, and B's log has no copy of it
C19_Witness ==
  /\ ret = Call("parse", "A", "none")
  /\ IsHanded("A", Handed, "B")
  /\ RecordsOf("A", Handed) # {}
  /\ RecordsOf("A", Handed) \subseteq Range(db["A"].stack_main)
  /\ \E T \in Range(db["A"].main) : T.kind = "task" /\ T.id = Handed.id
  /\ \A T \in Range(db["A"].delta) : T.kind # "task"
  /\ Copies("A", Handed, "B") = {}

\* the tasks of u's overlay under u's pending/@v mailbox that v's log has
\* no copy of: what a pass of route(u) had to forward and did not
Unforwarded(u, v) ==
  { T \in Range(db[u].delta) : IsHanded(u, T, v) /\ Copies(u, T, v) = {} }

\* C20: a route(u) that ends with a pending task of the overlay not
\* forwarded ends in an error the caller sees; it does not return as a
\* pass that completed.
C20_FailureReported ==
  \A u \in Users : \A v \in Users \ {u} :
    (ret.op = "parse" /\ ret.user = u /\ Unforwarded(u, v) # {}) => ret.raised # "none"

\* the keys under which u's index names the id
KeysOf(u, id) == { key \in ContextKeys : sql[u][key] = id }

\* the root or bucket the parent references lead to from el, el included,
\* in at most k steps: "nil" when they end before one
RECURSIVE BucketOf(_, _, _)
BucketOf(u, el, k) ==
  IF KeysOf(u, el.id) # {} THEN CHOOSE key \in KeysOf(u, el.id) : TRUE
  ELSE IF k = 0 \/ \A p \in ContextEls(u) : p.id # el.ref THEN "nil"
  ELSE BucketOf(u, CHOOSE p \in ContextEls(u) : p.id = el.ref, k - 1)

Traceable(u, el) == BucketOf(u, el, Cardinality(ContextEls(u))) # "nil"

\* the classification the parent chain of el gives: a root for the root
\* context and for a bucket context, a user for what is under a bucket
Classification(u, el) ==
  (IF KeysOf(u, el.id) # {} THEN "root" ELSE "user") \o "/" \o
    BucketOf(u, el, Cardinality(ContextEls(u)))

\* C21: type of a context whose parent chain reaches the root or a bucket
\* of its user returns: (root, b) for the root and for bucket b, (user, b)
\* for a mailbox under bucket b and for what is under the mailbox.
C21_Classifies ==
  \A u \in Users : \A el \in ContextEls(u) :
    (ret.op = "type" /\ ret.user = u /\ out.col = el.id /\ Traceable(u, el)) =>
      /\ ret.raised = "none"
      /\ out.val = Classification(u, el)

C23_TreesIndependent ==
  [][\A u \in Users : \A v \in Users \ {u} :
       (/\ db[u].open /\ mdb[u].open
        /\ \A key \in ContextKeys : contexts[key].user = u
        /\ ret'.op = "sharer" /\ ret'.user = v) =>
         \A key \in ContextKeys : contexts'[key] = contexts[key]]_vars

\* the pairs of records of u's log that are written after the same record
Forks(u) ==
  { p \in (2..Len(disk[u])) \X (2..Len(disk[u])) :
      p[1] < p[2] /\ disk[u][p[1]].head = disk[u][p[2]].head }

\* C24: nothing holds a commit back or makes it look at the directory: a
\* commit of either process appends one record and names it after the
\* _tail_id its own object holds, whatever the other process has written
\* since; so two records written after the same record can come about.
C24_CommitsRace ==
  [][\A u \in Users :
       /\ (ret'.op = "commit" /\ ret'.user = u) =>
            /\ Len(disk'[u]) = Len(disk[u]) + 1
            /\ Last(disk'[u]).head = db[u].tail_id
       /\ (ret'.op = "peer commit" /\ ret'.user = u) =>
            /\ Len(disk'[u]) = Len(disk[u]) + 1
            /\ Last(disk'[u]).head = peer[u].tail_id
     ]_vars

\* both processes have committed what they inserted and the two records
\* are written after the same record
C24_Witness ==
  /\ ret.op = "peer commit" /\ ret.user = "A"
  /\ \E p \in Forks("A") :
       /\ \E el \in Range(disk["A"][p[1]].els) : el.id \in { e.id : e \in InsertEls }
       /\ \E el \in Range(disk["A"][p[2]].els) : el.id \in { e.id : e \in PeerEls }

\* C26: every record of a log but the first is written after the record
\* that was the last of the log when it was written, and no two records
\* are written after the same record.
C26_ChainLinear ==
  \A u \in Users :
    /\ \A i \in 2..Len(disk[u]) : disk[u][i].head = disk[u][i - 1].tail
    /\ Forks(u) = {}

\* C25: whenever u's index names an id for the root or a bucket, u's log
\* holds a context element of that id.
C25_IndexAfterCommit ==
  \A u \in Users : \A key \in ContextKeys :
    sql[u][key] # "nil" => \E el \in Els(u) : el.kind = "context" /\ el.id = sql[u][key]

====
